---------------------------- MODULE Spec2Model ----------------------------
(***************************************************************************)
(* A model of src/script.js, the behaviour layer of the Delhi Public       *)
(* Library site: accessibility preferences, the mobile menu and the search *)
(* overlay, the tab groups, the counter animation, the header scroll       *)
(* marker and the hero slider.  Every event handler of the script is one   *)
(* action; the DOM state the handlers read and write is the state.         *)
(*                                                                         *)
(* Strings the script parses or writes to localStorage are sequences of    *)
(* one-character strings, so that parseInt and String() are computed.      *)
(***************************************************************************)
EXTENDS Integers, Sequences, FiniteSets, TLC

VARIABLES
    page,            \* "scriptPending" | "scriptRun" | "ready": how far the page load got
    dom,             \* the elements of the markup contract, and the platform features,
                     \* present in the page
    parsed,          \* what the parser had delivered when the script was executed: the
                     \* elements, and how many of the slides and of the dots
    listeners,       \* the event listeners registered so far
    localStorage,    \* function from the persisted keys that are set to their values
    htmlClasses,     \* class list of document.documentElement
    bodyClasses,     \* class list of document.body
    liveNodes,       \* ids of the announcement nodes currently in document.body
    nodeText,        \* textContent of each live announcement node
    timers,          \* pending setTimeout callbacks of the announcer, in firing order
    ui,              \* overlays: class lists and ARIA attributes of the menu and the
                     \* search overlay, body.style.overflow, document.activeElement
    tabList,         \* per tab group, the sequence of its tabs (class list, aria-selected)
    counters,        \* per [data-count] element: attribute, observation, timer, progress, text
    fadeElements,    \* per card that fades in: observation, style.opacity, style.transform
    pageYOffset,     \* window.pageYOffset
    lastScroll,      \* lastScroll of initHeaderScroll
    headerClasses,   \* class list of .main-header
    slider,          \* hero slider: timer, currentSlide, class lists of the slides and
                     \* dots of the page, lengths of the NodeLists initSlider holds
    handled,         \* the number of events handled, where a specification counts them
    ev,              \* history: the last event handled
    prevEv,          \* history: the event handled before ev (NoEvent where it is not kept)
    lastTab,         \* history: per tab group, the index of the tab last clicked or
                     \* targeted by an arrow key (-1: none yet)
    beforeReload     \* history: the preference markers the page carried when it was
                     \* last reloaded

accVars    == <<localStorage, htmlClasses, bodyClasses>>
annVars    == <<liveNodes, nodeText, timers>>
scrollVars == <<pageYOffset, lastScroll, headerClasses>>
histVars   == <<ev, prevEv, lastTab, beforeReload>>
vars       == <<page, dom, parsed, listeners, accVars, annVars, ui, tabList, counters,
                fadeElements, scrollVars, slider, handled, histVars>>

-----------------------------------------------------------------------------
(* Bounds of the model *)

\* announcement nodes that may be live at once
MaxAnnounce == 2

\* the largest scroll offset
MaxScroll == 12

\* most slides, and most dots, of the slider
MaxSlides == 3

\* the phases the 5000 ms interval of the slider is divided into
SliderPhases == 3

\* most events handled after the page load, where a specification counts them
MaxEvents == 2

-----------------------------------------------------------------------------
(* Strings *)

S_1      == <<"1">>
S_m1     == <<"-", "1">>
S_0      == <<"0">>
S_true   == <<"t", "r", "u", "e">>
S_false  == <<"f", "a", "l", "s", "e">>

\* a JavaScript number: an integer, or NaN
Num(n) == [nan |-> FALSE, val |-> n]
NaN    == [nan |-> TRUE, val |-> 0]

\* number === n
StrictEq(number, n) == ~number.nan /\ number.val = n

DigitValue(c) ==
    CASE c = "0" -> 0 [] c = "1" -> 1 [] c = "2" -> 2 [] c = "3" -> 3
      [] c = "4" -> 4 [] c = "5" -> 5 [] c = "6" -> 6 [] c = "7" -> 7
      [] c = "8" -> 8 [] c = "9" -> 9
      [] c \in {"a", "A"} -> 10 [] c \in {"b", "B"} -> 11
      [] c \in {"c", "C"} -> 12 [] c \in {"d", "D"} -> 13
      [] c \in {"e", "E"} -> 14 [] c \in {"f", "F"} -> 15
      [] OTHER -> 99

\* the longest prefix of s made of digits of the radix, as a number; acc is
\* the value read so far and seen tells whether a digit was read
RECURSIVE ParseDigits(_, _, _, _)
ParseDigits(s, radix, acc, seen) ==
    IF s # <<>> /\ DigitValue(Head(s)) < radix
    THEN ParseDigits(Tail(s), radix, radix * acc + DigitValue(Head(s)), TRUE)
    ELSE IF seen THEN Num(acc) ELSE NaN

RECURSIVE TrimStart(_)
TrimStart(s) ==
    IF s # <<>> /\ Head(s) = " " THEN TrimStart(Tail(s)) ELSE s

\* a parseInt that reads no sign: "-1" is no number
parseInt_Unsigned(str) ==
    LET t    == TrimStart(str)
        hex  == Len(t) >= 2 /\ t[1] = "0" /\ t[2] \in {"x", "X"}
    IN  IF hex THEN ParseDigits(Tail(Tail(t)), 16, 0, FALSE)
               ELSE ParseDigits(t, 10, 0, FALSE)

\* parseInt(string) of JavaScript with no radix given: leading white space is
\* skipped, a sign is read, a 0x prefix selects radix 16, then digits are read
\* up to the first character that is no digit; NaN when there is no digit
parseInt(str) ==
    LET t    == TrimStart(str)
        neg  == t # <<>> /\ Head(t) = "-"
        u    == IF t # <<>> /\ Head(t) \in {"-", "+"} THEN Tail(t) ELSE t
        hex  == Len(u) >= 2 /\ u[1] = "0" /\ u[2] \in {"x", "X"}
        n    == IF hex THEN ParseDigits(Tail(Tail(u)), 16, 0, FALSE)
                       ELSE ParseDigits(u, 10, 0, FALSE)
    IN  IF n.nan THEN NaN ELSE IF neg THEN Num(0 - n.val) ELSE n

\* String(b) for a boolean b, as localStorage.setItem stores it
BoolToString(b) == IF b THEN S_true ELSE S_false

\* localStorage.setItem(key, value)
setItem(store, key, value) ==
    [k \in DOMAIN store \cup {key} |-> IF k = key THEN value ELSE store[k]]

\* whether localStorage.getItem(key) is a truthy value (set and not empty)
Truthy(store, key) == key \in DOMAIN store /\ store[key] # <<>>

-----------------------------------------------------------------------------
(* History *)

NoEvent == [op |-> "none", arg |-> 0, pre |-> 0]

Event(op, arg, pre) == [op |-> op, arg |-> arg, pre |-> pre]

\* an event of the accessibility, overlay or slider controller, or of the page load
Log(e) ==
    /\ ev' = e
    /\ prevEv' = ev
    /\ UNCHANGED <<lastTab, beforeReload>>

\* an event of a counter or of the header: the event before it is not kept
LogLast(e) ==
    /\ ev' = e
    /\ prevEv' = NoEvent
    /\ UNCHANGED <<lastTab, beforeReload>>

\* an event of a tab, e.pre being the index of the tab it selects, if any: the
\* event before it is not kept
LogTab(e) ==
    /\ ev' = e
    /\ prevEv' = NoEvent
    /\ lastTab' = IF e.pre >= 0 THEN [lastTab EXCEPT ![e.arg[1]] = e.pre] ELSE lastTab
    /\ UNCHANGED beforeReload

\* the page was not reloaded yet
NoReload == [reloaded |-> FALSE, ready |-> FALSE, html |-> {}, body |-> {}]

-----------------------------------------------------------------------------
(* Announcer *)

FreeIds == (1 .. MaxAnnounce) \ liveNodes

\* announceToScreenReader(message) with one timer shared by all calls: setting
\* it for the new node cancels the timer of the node before
announceToScreenReader_SharedTimer(message) ==
    /\ FreeIds # {}
    /\ LET id == CHOOSE i \in FreeIds : \A j \in FreeIds : i <= j
       IN  /\ liveNodes' = liveNodes \cup {id}
           /\ nodeText'  = [n \in liveNodes \cup {id} |->
                               IF n = id THEN message ELSE nodeText[n]]
           /\ timers'    = <<id>>

\* announceToScreenReader(message): one status node is appended to the body and
\* a timer is set that removes that node
announceToScreenReader(message) ==
    /\ FreeIds # {}
    /\ LET id == CHOOSE i \in FreeIds : \A j \in FreeIds : i <= j
       IN  /\ liveNodes' = liveNodes \cup {id}
           /\ nodeText'  = [n \in liveNodes \cup {id} |->
                               IF n = id THEN message ELSE nodeText[n]]
           /\ timers'    = Append(timers, id)

\* the setTimeout callback: announcement.remove() of the node the timer was set for
RemoveAnnouncement ==
    /\ timers # <<>>
    /\ liveNodes' = liveNodes \ {Head(timers)}
    /\ nodeText'  = [n \in liveNodes \ {Head(timers)} |-> nodeText[n]]
    /\ timers'    = Tail(timers)
    /\ UNCHANGED <<page, dom, parsed, fadeElements, listeners, accVars, ui, tabList,
                   counters, scrollVars, slider, histVars>>

-----------------------------------------------------------------------------
(* Accessibility: font size and contrast *)

FontSizeClasses == {"font-size-small", "font-size-large"}

\* applyFontSize(level), on the class list of the document root
applyFontSize_ElseSmall(classes, level) ==
    LET cleared == classes \ FontSizeClasses
    IN  IF StrictEq(level, 1) THEN cleared \cup {"font-size-large"}
        ELSE cleared \cup {"font-size-small"}

applyFontSize(classes, level) ==
    LET cleared == classes \ FontSizeClasses
    IN  IF StrictEq(level, 1) THEN cleared \cup {"font-size-large"}
        ELSE IF StrictEq(level, -1) THEN cleared \cup {"font-size-small"}
        ELSE cleared

\* initAccessibility(), taking any non-empty saved contrast value for "true"
initAccessibility_TruthyContrast ==
    /\ htmlClasses' =
          IF Truthy(localStorage, "dpl-font-size")
          THEN applyFontSize(htmlClasses, parseInt(localStorage["dpl-font-size"]))
          ELSE htmlClasses
    /\ bodyClasses' =
          IF Truthy(localStorage, "dpl-high-contrast")
          THEN bodyClasses \cup {"high-contrast"}
          ELSE bodyClasses
    /\ UNCHANGED localStorage

\* initAccessibility(): the saved preferences are applied
initAccessibility ==
    /\ htmlClasses' =
          IF Truthy(localStorage, "dpl-font-size")
          THEN applyFontSize(htmlClasses, parseInt(localStorage["dpl-font-size"]))
          ELSE htmlClasses
    /\ bodyClasses' =
          IF "dpl-high-contrast" \in DOMAIN localStorage
             /\ localStorage["dpl-high-contrast"] = S_true
          THEN bodyClasses \cup {"high-contrast"}
          ELSE bodyClasses
    /\ UNCHANGED localStorage

\* window.changeFontSize(direction), without the removal of the existing classes
changeFontSize_NoRemove(direction) ==
    /\ page # "scriptPending"
    /\ IF direction = 1
       THEN /\ htmlClasses' = htmlClasses \cup {"font-size-large"}
            /\ localStorage' = setItem(localStorage, "dpl-font-size", S_1)
       ELSE IF direction = -1
       THEN /\ htmlClasses' = htmlClasses \cup {"font-size-small"}
            /\ localStorage' = setItem(localStorage, "dpl-font-size", S_m1)
       ELSE /\ htmlClasses' = htmlClasses
            /\ localStorage' = setItem(localStorage, "dpl-font-size", S_0)
    /\ announceToScreenReader("Font size changed")
    /\ Log(Event("changeFontSize", direction, htmlClasses))
    /\ UNCHANGED <<page, dom, parsed, fadeElements, listeners, bodyClasses, ui,
                   tabList, counters, scrollVars, slider>>

\* window.changeFontSize(direction)
changeFontSize(direction) ==
    /\ page # "scriptPending"
    /\ LET cleared == htmlClasses \ FontSizeClasses
       IN  IF direction = 1
           THEN /\ htmlClasses' = cleared \cup {"font-size-large"}
                /\ localStorage' = setItem(localStorage, "dpl-font-size", S_1)
           ELSE IF direction = -1
           THEN /\ htmlClasses' = cleared \cup {"font-size-small"}
                /\ localStorage' = setItem(localStorage, "dpl-font-size", S_m1)
           ELSE /\ htmlClasses' = cleared
                /\ localStorage' = setItem(localStorage, "dpl-font-size", S_0)
    /\ announceToScreenReader("Font size changed")
    /\ Log(Event("changeFontSize", direction, htmlClasses))
    /\ UNCHANGED <<page, dom, parsed, fadeElements, listeners, bodyClasses, ui,
                   tabList, counters, scrollVars, slider>>

\* classList.toggle(name): the new class list
classListToggle(classes, name) ==
    IF name \in classes THEN classes \ {name} ELSE classes \cup {name}

\* window.toggleContrast(), persisting the state found instead of the new one
toggleContrast_StaleValue ==
    /\ page # "scriptPending"
    /\ LET wasHighContrast == "high-contrast" \in bodyClasses
           isHighContrast == ~wasHighContrast
       IN  /\ bodyClasses' = classListToggle(bodyClasses, "high-contrast")
           /\ localStorage' = setItem(localStorage, "dpl-high-contrast",
                                      BoolToString(wasHighContrast))
           /\ announceToScreenReader(IF isHighContrast
                                     THEN "High contrast mode enabled"
                                     ELSE "High contrast mode disabled")
           /\ Log(Event("toggleContrast", 0, wasHighContrast))
    /\ UNCHANGED <<page, dom, parsed, fadeElements, listeners, htmlClasses, ui,
                   tabList, counters, scrollVars, slider>>

\* window.toggleContrast()
toggleContrast ==
    /\ page # "scriptPending"
    /\ LET wasHighContrast == "high-contrast" \in bodyClasses
           isHighContrast == "high-contrast" \in classListToggle(bodyClasses, "high-contrast")
       IN  /\ bodyClasses' = classListToggle(bodyClasses, "high-contrast")
           /\ localStorage' = setItem(localStorage, "dpl-high-contrast",
                                      BoolToString(isHighContrast))
           /\ announceToScreenReader(IF isHighContrast
                                     THEN "High contrast mode enabled"
                                     ELSE "High contrast mode disabled")
           /\ Log(Event("toggleContrast", 0, wasHighContrast))
    /\ UNCHANGED <<page, dom, parsed, fadeElements, listeners, htmlClasses, ui,
                   tabList, counters, scrollVars, slider>>

-----------------------------------------------------------------------------
(* Navigation: the mobile menu *)

\* an attribute the markup does not set: getAttribute gives null
Absent == "null"

\* the click listener of .mobile-menu-btn: the menu is opened and its first
\* link, if any, is focused
mobileMenuBtn_click(u) ==
    [u EXCEPT !.menuClasses = @ \cup {"active"},
              !.menuAriaHidden = "false",
              !.btnAriaExpanded = "true",
              !.overflow = "hidden",
              !.activeElement = IF "mobile-menu-link" \in dom
                                THEN "mobile-menu-link" ELSE @]

\* closeMobileMenu(), leaving aria-hidden as it is
closeMobileMenu_KeepsAriaHidden(u) ==
    [u EXCEPT !.menuClasses = @ \ {"active"},
              !.btnAriaExpanded = "false",
              !.overflow = "",
              !.activeElement = "mobile-menu-btn"]

\* closeMobileMenu()
closeMobileMenu(u) ==
    [u EXCEPT !.menuClasses = @ \ {"active"},
              !.menuAriaHidden = "true",
              !.btnAriaExpanded = "false",
              !.overflow = "",
              !.activeElement = "mobile-menu-btn"]

\* the keydown listener of the document, closing the menu on every Escape
mobileMenu_keydown_AnyState(u, key) ==
    IF key = "Escape" THEN closeMobileMenu(u) ELSE u

\* the keydown listener initNavigation adds to the document
mobileMenu_keydown(u, key) ==
    IF key = "Escape" /\ "active" \in u.menuClasses THEN closeMobileMenu(u) ELSE u

\* the click listener of .mobile-menu: a click on the backdrop closes the menu
mobileMenu_click(u, target) ==
    IF target = "mobile-menu" THEN closeMobileMenu(u) ELSE u

\* initNavigation(): the listeners it registers
initNavigation ==
    IF {"mobile-menu-btn", "mobile-menu"} \subseteq dom
    THEN {"mobileMenuBtn.click", "document.keydown/menu", "mobileMenu.click"}
         \cup (IF "mobile-close" \in dom THEN {"mobileClose.click"} ELSE {})
    ELSE {}

-----------------------------------------------------------------------------
(* Search overlay *)

\* the click listener of .search-toggle: the overlay is opened and its input,
\* if any, is focused
searchToggle_click(u) ==
    [u EXCEPT !.searchClasses = @ \cup {"active"},
              !.searchAriaHidden = "false",
              !.activeElement = IF "search-input" \in dom
                                THEN "search-input" ELSE @,
              !.overflow = "hidden"]

\* closeSearch()
closeSearch(u) ==
    [u EXCEPT !.searchClasses = @ \ {"active"},
              !.searchAriaHidden = "true",
              !.overflow = "",
              !.activeElement = "search-toggle"]

\* the keydown listener initSearch adds to the document
search_keydown(u, key) ==
    IF key = "Escape" /\ "active" \in u.searchClasses THEN closeSearch(u) ELSE u

\* the click listener of .search-overlay: a click on the backdrop closes it
searchOverlay_click(u, target) ==
    IF target = "search-overlay" THEN closeSearch(u) ELSE u

\* initSearch(), registering as soon as one of the two elements is found
initSearch_EitherElement ==
    IF {"search-toggle", "search-overlay"} \cap dom # {}
    THEN {"searchToggle.click", "document.keydown/search", "searchOverlay.click"}
         \cup (IF "search-close" \in dom THEN {"searchClose.click"} ELSE {})
    ELSE {}

\* initSearch(): the listeners it registers
initSearch ==
    IF {"search-toggle", "search-overlay"} \subseteq dom
    THEN {"searchToggle.click", "document.keydown/search", "searchOverlay.click"}
         \cup (IF "search-close" \in dom THEN {"searchClose.click"} ELSE {})
    ELSE {}

-----------------------------------------------------------------------------
(* Overlay events *)

\* which overlays carry the active class
Open(u) == [menu |-> "active" \in u.menuClasses, search |-> "active" \in u.searchClasses]

\* a mouse click may move the focus to what is clicked before the listeners run
Clicked(u, element) ==
    { [u EXCEPT !.activeElement = f] : f \in {u.activeElement, element} }

NavFrame ==
    UNCHANGED <<page, dom, parsed, fadeElements, listeners, accVars, annVars,
                tabList, counters, scrollVars, slider>>

ClickMobileMenuBtn ==
    /\ "mobileMenuBtn.click" \in listeners
    /\ \E u \in Clicked(ui, "mobile-menu-btn") : ui' = mobileMenuBtn_click(u)
    /\ Log(Event("ClickMobileMenuBtn", 0, Open(ui)))
    /\ NavFrame

ClickMobileClose ==
    /\ "mobileClose.click" \in listeners
    /\ \E u \in Clicked(ui, "mobile-close") : ui' = closeMobileMenu(u)
    /\ Log(Event("ClickMobileClose", 0, Open(ui)))
    /\ NavFrame

\* a click inside the menu: on the container itself or on a link in it
ClickMobileMenu(target) ==
    /\ "mobileMenu.click" \in listeners
    /\ target \in dom
    /\ \E u \in Clicked(ui, target) : ui' = mobileMenu_click(u, target)
    /\ Log(Event("ClickMobileMenu", target, Open(ui)))
    /\ NavFrame

ClickSearchToggle ==
    /\ "searchToggle.click" \in listeners
    /\ \E u \in Clicked(ui, "search-toggle") : ui' = searchToggle_click(u)
    /\ Log(Event("ClickSearchToggle", 0, Open(ui)))
    /\ NavFrame

ClickSearchClose ==
    /\ "searchClose.click" \in listeners
    /\ \E u \in Clicked(ui, "search-close") : ui' = closeSearch(u)
    /\ Log(Event("ClickSearchClose", 0, Open(ui)))
    /\ NavFrame

\* a click inside the search overlay: on the container itself or on its input
ClickSearchOverlay(target) ==
    /\ "searchOverlay.click" \in listeners
    /\ target \in dom
    /\ \E u \in Clicked(ui, target) : ui' = searchOverlay_click(u, target)
    /\ Log(Event("ClickSearchOverlay", target, Open(ui)))
    /\ NavFrame

\* a key pressed anywhere in the page: the document's keydown listeners run in
\* the order of their registration, initNavigation's before initSearch's
KeydownDocument(key) ==
    /\ {"document.keydown/menu", "document.keydown/search"} \cap listeners # {}
    /\ LET u1 == IF "document.keydown/menu" \in listeners
                 THEN mobileMenu_keydown(ui, key) ELSE ui
           u2 == IF "document.keydown/search" \in listeners
                 THEN search_keydown(u1, key) ELSE u1
       IN  ui' = u2
    /\ Log(Event("KeydownDocument", key, Open(ui)))
    /\ NavFrame

-----------------------------------------------------------------------------
(* Tabs *)

\* targetIndex when no arrow key was pressed
Undefined == -1

\* the tab at a (0-based) index of a group's NodeList
TabAt(tabs, index) == tabs[index + 1]

\* the name of the tab at index of group g, for document.activeElement
TabId(g, index) == "tab" \o ToString(g) \o "." \o ToString(index)

\* the click listener of the tab at index, without the loop that clears the
\* other tabs
tab_click_NoClear(tabs, index) ==
    [i \in DOMAIN tabs |->
        IF i = index + 1
        THEN [tabs[i] EXCEPT !.classes = @ \cup {"active"}, !.ariaSelected = "true"]
        ELSE tabs[i]]

\* the click listener of the tab at index: every tab of the group is cleared,
\* then the clicked one is marked
tab_click(tabs, index) ==
    LET cleared == [i \in DOMAIN tabs |->
                       [tabs[i] EXCEPT !.classes = @ \ {"active"},
                                       !.ariaSelected = "false"]]
    IN  [cleared EXCEPT ![index + 1] =
            [@ EXCEPT !.classes = @ \cup {"active"}, !.ariaSelected = "true"]]

\* targetIndex of the keydown listener, with ArrowLeft stopping at the first tab
arrowTarget_NoWrap(length, index, key) ==
    IF key = "ArrowRight"
    THEN (IF index + 1 >= length THEN 0 ELSE index + 1)
    ELSE IF key = "ArrowLeft"
    THEN (IF index - 1 < 0 THEN 0 ELSE index - 1)
    ELSE Undefined

\* targetIndex of the keydown listener of the tab at index
arrowTarget(length, index, key) ==
    IF key = "ArrowRight"
    THEN (IF index + 1 >= length THEN 0 ELSE index + 1)
    ELSE IF key = "ArrowLeft"
    THEN (IF index - 1 < 0 THEN length - 1 ELSE index - 1)
    ELSE Undefined

\* initTabs(): the listeners it registers, on every tab of every group
initTabs ==
    IF \E g \in DOMAIN tabList : tabList[g] # <<>>
    THEN {"tab.click", "tab.keydown"} ELSE {}

TabFrame ==
    UNCHANGED <<page, dom, parsed, fadeElements, listeners, accVars, counters,
                scrollVars, slider>>

\* the user clicks the tab at index of group g
ClickTab(g, index) ==
    /\ "tab.click" \in listeners
    /\ \E u \in Clicked(ui, TabId(g, index)) : ui' = u
    /\ tabList' = [tabList EXCEPT ![g] = tab_click(@, index)]
    /\ announceToScreenReader(TabAt(tabList[g], index).textContent \o " tab selected")
    /\ LogTab(Event("ClickTab", <<g, index>>, index))
    /\ TabFrame

\* the user presses a key while the tab at index of group g has the focus: an
\* arrow key focuses the target tab and clicks it
KeydownTab(g, index, key) ==
    /\ "tab.keydown" \in listeners
    /\ LET targetIndex == arrowTarget(Len(tabList[g]), index, key)
       IN  /\ IF targetIndex # Undefined
              THEN /\ ui' = [ui EXCEPT !.activeElement = TabId(g, targetIndex)]
                   /\ tabList' = [tabList EXCEPT ![g] = tab_click(@, targetIndex)]
                   /\ announceToScreenReader(
                          TabAt(tabList[g], targetIndex).textContent \o " tab selected")
              ELSE /\ ui' = [ui EXCEPT !.activeElement = TabId(g, index)]
                   /\ UNCHANGED <<tabList, annVars>>
           /\ LogTab(Event("KeydownTab", <<g, index, key, tabList[g]>>, targetIndex))
    /\ TabFrame

-----------------------------------------------------------------------------
(* Animated counters *)

\* const duration = 2000, and the interval of the timer, in milliseconds
Duration == 2000
TickMs   == 16

\* duration / 16: the number of steps of the ramp; step = target / Steps
Steps == Duration \div TickMs

Pow10(digits) == IF digits = 0 THEN 1 ELSE 10

\* (num / den).toFixed(digits) for num / den >= 0 and digits 0 or 1, den being a
\* multiple of 10^digits: the quotient is rounded to the nearest multiple of
\* 10^-digits, a tie to the larger one
toFixed(num, den, digits) ==
    LET d == den \div Pow10(digits)
        n == (2 * num + d) \div (2 * d)
    IN  IF digits = 0 THEN ToString(n)
        ELSE ToString(n \div 10) \o "." \o ToString(n % 10)

\* the text the timer callback renders for the value currentNum / Steps; the
\* branch is chosen by the target
formatCounter(target, currentNum) ==
    IF target.nan THEN "NaN"
    ELSE IF target.val >= 1000000
    THEN toFixed(currentNum, Steps * 1000000, 1) \o "M+"
    ELSE IF target.val >= 1000
    THEN toFixed(currentNum, Steps * 1000, 0) \o "K+"
    ELSE ToString(currentNum \div Steps)

\* current >= target after the k-th addition of step, current being k * step.
\* step is exact in floating point when Steps divides the target; otherwise the
\* sum of Steps rounded additions may end just below or at the target
Reached(target, k) ==
    IF target.nan THEN {FALSE}
    ELSE IF k * target.val > Steps * target.val THEN {TRUE}
    ELSE IF k * target.val < Steps * target.val THEN {FALSE}
    ELSE IF target.val % Steps = 0 THEN {TRUE}
    ELSE {TRUE, FALSE}

\* animateCounter(element): the target is parsed, current is 0, the timer is set
animateCounter(c) ==
    [c EXCEPT !.target = parseInt(c.dataCount), !.ticks = 0, !.currentNum = 0,
              !.timer = "set"]

\* the setInterval callback without the clamp to the target
counterTick_NoClamp(c, reached) ==
    LET k == IF c.target.nan THEN c.ticks ELSE c.ticks + 1
        currentNum == IF c.target.nan THEN 0 ELSE k * c.target.val
    IN  [c EXCEPT !.ticks = k,
                  !.currentNum = currentNum,
                  !.timer = IF reached THEN "cleared" ELSE @,
                  !.textContent = formatCounter(c.target, currentNum)]

\* the setInterval callback: one step is added; at or beyond the target the
\* value is clamped to it and the timer is cleared; the text is rendered
counterTick(c, reached) ==
    LET k == IF c.target.nan THEN c.ticks ELSE c.ticks + 1
        currentNum == IF c.target.nan THEN 0
                      ELSE IF reached THEN Steps * c.target.val
                      ELSE k * c.target.val
    IN  [c EXCEPT !.ticks = k,
                  !.currentNum = currentNum,
                  !.timer = IF reached THEN "cleared" ELSE @,
                  !.textContent = formatCounter(c.target, currentNum)]

\* initAnimations(): the counters are observed when there is an
\* IntersectionObserver
initAnimations(cs) ==
    IF cs # <<>> /\ "IntersectionObserver" \in dom
    THEN [i \in DOMAIN cs |-> [cs[i] EXCEPT !.observed = TRUE]]
    ELSE cs

\* initAnimations(), second part: with an IntersectionObserver the cards that
\* fade in are hidden, moved down and observed
initAnimations_fade(fs) ==
    IF fs # <<>> /\ "IntersectionObserver" \in dom
    THEN [i \in DOMAIN fs |->
             [fs[i] EXCEPT !.opacity = "0", !.transform = "translateY(20px)",
                           !.observed = TRUE]]
    ELSE fs

\* the callback of fadeObserver for one entry: a card that intersects is shown
\* and unobserved
fadeObserver_entry(f, isIntersecting) ==
    IF isIntersecting
    THEN [f EXCEPT !.opacity = "1", !.transform = "translateY(0)", !.observed = FALSE]
    ELSE f

AnimFrame ==
    UNCHANGED <<page, dom, parsed, fadeElements, listeners, accVars, annVars, ui,
                tabList, scrollVars, slider>>

\* the IntersectionObserver callback without observer.unobserve(entry.target)
CounterIntersection_KeepsObserving(i, isIntersecting) ==
    /\ counters[i].observed
    /\ counters' = IF isIntersecting
                   THEN [counters EXCEPT ![i] = animateCounter(@)]
                   ELSE counters
    /\ LogLast(Event("CounterIntersection", <<i, isIntersecting>>, 0))
    /\ AnimFrame

\* the IntersectionObserver callback with an entry for counter i
CounterIntersection(i, isIntersecting) ==
    /\ counters[i].observed
    /\ counters' = IF isIntersecting
                   THEN [counters EXCEPT ![i] =
                            [animateCounter(@) EXCEPT !.observed = FALSE]]
                   ELSE counters
    /\ LogLast(Event("CounterIntersection", <<i, isIntersecting>>, 0))
    /\ AnimFrame

\* the interval timer of counter i fires
CounterTick(i) ==
    /\ counters[i].timer = "set"
    /\ \E reached \in Reached(counters[i].target, counters[i].ticks + 1) :
          counters' = [counters EXCEPT ![i] = counterTick(@, reached)]
    /\ LogLast(Event("CounterTick", <<i>>, 0))
    /\ AnimFrame

\* the callback of fadeObserver with an entry for card i
FadeIntersection(i, isIntersecting) ==
    /\ fadeElements[i].observed
    /\ fadeElements' = [fadeElements EXCEPT ![i] = fadeObserver_entry(@, isIntersecting)]
    /\ LogLast(Event("FadeIntersection", <<i, isIntersecting>>, 0))
    /\ UNCHANGED <<page, dom, parsed, listeners, accVars, annVars, ui, tabList,
                   counters, scrollVars, slider>>

-----------------------------------------------------------------------------
(* Header scroll effect *)

\* the class list of the header after the scroll listener, with the threshold
\* included
headerOnScroll_AtThreshold(classes, currentScroll) ==
    IF currentScroll >= 10 THEN classes \cup {"scrolled"} ELSE classes \ {"scrolled"}

\* the class list of the header after the scroll listener has run
headerOnScroll(classes, currentScroll) ==
    IF currentScroll > 10 THEN classes \cup {"scrolled"} ELSE classes \ {"scrolled"}

\* initHeaderScroll(): the listener it registers
initHeaderScroll == IF "main-header" \in dom THEN {"window.scroll"} ELSE {}

\* the page is scrolled to offset y; the scroll listener, if registered, runs
Scroll(y) ==
    /\ pageYOffset' = y
    /\ IF "window.scroll" \in listeners
       THEN /\ headerClasses' = headerOnScroll(headerClasses, y)
            /\ lastScroll' = y
       ELSE UNCHANGED <<headerClasses, lastScroll>>
    /\ LogLast(Event("Scroll", y,
                    [handled |-> "window.scroll" \in listeners,
                     offset |-> pageYOffset, classes |-> headerClasses]))
    /\ UNCHANGED <<page, dom, parsed, fadeElements, listeners, accVars, annVars, ui,
                   tabList, counters, slider>>

-----------------------------------------------------------------------------
(* Hero slider *)

\* classList.toggle('active', force)
classListForce(classes, name, force) ==
    IF force THEN classes \cup {name} ELSE classes \ {name}

\* showSlide(index), on the class lists of the slides or of the dots
showSlide(items, index) ==
    [i \in DOMAIN items |-> classListForce(items[i], "active", i - 1 = index)]

\* showSlide(index) on the items of a NodeList of length n: the items of the
\* page that the NodeList does not hold are left as they are
showHeld(items, n, index) ==
    showSlide(SubSeq(items, 1, n), index) \o SubSeq(items, n + 1, Len(items))

\* initSlider(), run when nSlides slides and nDots dots are in the document:
\* nothing with at most one slide; otherwise the two NodeLists are held, the
\* interval timer is set and the dots held get their click listeners
initSlider(sl, nSlides, nDots) ==
    IF nSlides <= 1 THEN sl
    ELSE [sl EXCEPT !.timer = TRUE, !.currentSlide = 0, !.elapsed = 0,
                    !.nSlides = nSlides, !.nDots = nDots]

\* the setInterval callback of the slider
sliderTick(sl) ==
    LET next == (sl.currentSlide + 1) % sl.nSlides
    IN  [sl EXCEPT !.currentSlide = next,
                   !.slides = showHeld(@, sl.nSlides, next),
                   !.dots = showHeld(@, sl.nDots, next),
                   !.elapsed = 0]

\* the click listener of the dot at index, restarting the interval as well
dot_click_RestartsTimer(sl, index) ==
    [sl EXCEPT !.currentSlide = index,
               !.slides = showHeld(@, sl.nSlides, index),
               !.dots = showHeld(@, sl.nDots, index),
               !.elapsed = 0]

\* the click listener of the dot at index
dot_click(sl, index) ==
    [sl EXCEPT !.currentSlide = index,
               !.slides = showHeld(@, sl.nSlides, index),
               !.dots = showHeld(@, sl.nDots, index)]

SliderFrame ==
    UNCHANGED <<page, dom, parsed, fadeElements, listeners, accVars, annVars, ui,
                tabList, counters, scrollVars>>

\* time passes: one more phase of the slider's interval has elapsed
SliderElapse ==
    /\ slider.timer
    /\ slider.elapsed < SliderPhases
    /\ slider' = [slider EXCEPT !.elapsed = @ + 1]
    /\ UNCHANGED histVars
    /\ SliderFrame

\* the interval timer of the slider fires, no earlier than its delay
SliderTick ==
    /\ slider.timer
    /\ slider.elapsed = SliderPhases
    /\ slider' = sliderTick(slider)
    /\ Log(Event("SliderTick", 0, slider))
    /\ SliderFrame

\* the user clicks the dot at index
ClickDot(index) ==
    /\ slider.timer
    /\ index < slider.nDots
    /\ slider' = dot_click(slider, index)
    /\ Log(Event("ClickDot", index, slider))
    /\ SliderFrame

-----------------------------------------------------------------------------
(* Page load *)

\* the script's top level has run: the global actions are defined and the
\* slider is initialised if a .hero-slider is in the document by then
RunScript ==
    /\ page = "scriptPending"
    /\ page' = "scriptRun"
    /\ slider' = IF "hero-slider" \in parsed.elements
                 THEN initSlider(slider, parsed.slides, parsed.dots)
                 ELSE slider
    /\ Log(Event("RunScript", 0, 0))
    /\ UNCHANGED <<dom, parsed, fadeElements, listeners, accVars, annVars, ui,
                   tabList, counters, scrollVars>>

\* the DOMContentLoaded listener: every controller is initialised
DOMContentLoaded ==
    /\ page = "scriptRun"
    /\ page' = "ready"
    /\ initAccessibility
    /\ listeners' = listeners \cup initNavigation \cup initSearch \cup initTabs
                              \cup initHeaderScroll
    /\ counters' = initAnimations(counters)
    /\ fadeElements' = initAnimations_fade(fadeElements)
    /\ Log(Event("DOMContentLoaded", 0, 0))
    /\ UNCHANGED <<dom, parsed, annVars, ui, tabList, scrollVars,
                   slider>>

\* the user reloads a page that has the accessibility controls only: the
\* document is replaced by a fresh one, with no class the script added, no
\* listener, no status node and no timer, scrolled to the top; localStorage is
\* kept
Reload ==
    /\ dom = {} /\ tabList = <<>> /\ counters = <<>> /\ fadeElements = <<>>
    /\ ~slider.timer
    /\ page' = "scriptPending"
    /\ htmlClasses' = {}
    /\ bodyClasses' = {}
    /\ listeners' = {}
    /\ liveNodes' = {}
    /\ nodeText' = <<>>
    /\ timers' = <<>>
    /\ pageYOffset' = 0
    /\ lastScroll' = 0
    /\ headerClasses' = {}
    /\ beforeReload' = [reloaded |-> TRUE, ready |-> page = "ready",
                        html |-> htmlClasses, body |-> bodyClasses]
    /\ ev' = Event("Reload", 0, 0)
    /\ prevEv' = ev
    /\ UNCHANGED <<dom, parsed, localStorage, ui, tabList, counters, fadeElements,
                   slider, lastTab>>

-----------------------------------------------------------------------------
(* Accessibility controller: specification *)

\* values of dpl-font-size a visit may find persisted
SavedFontSizes ==
    { S_1, S_m1, S_0, <<>>, <<"2">>, <<"a", "b", "c">>, <<"1", "p", "x">>,
      <<" ", "1">>, <<"+", "1">>, <<"0", "x", "1">>, <<"-", "1", ".", "9">>,
      <<"-", "0">> }

\* values of dpl-high-contrast a visit may find persisted
SavedContrasts == { S_true, S_false, <<"T", "R", "U", "E">>, <<"1">>, <<>> }

\* the stores a visit may start with: each key absent or set
InitialStores ==
    { [k \in {} |-> <<>>] }
    \cup { [k \in {"dpl-font-size"} |-> f] : f \in SavedFontSizes }
    \cup { [k \in {"dpl-high-contrast"} |-> c] : c \in SavedContrasts }
    \cup { [k \in {"dpl-font-size", "dpl-high-contrast"} |->
              IF k = "dpl-font-size" THEN f ELSE c] :
              f \in SavedFontSizes, c \in SavedContrasts }

\* arguments changeFontSize is called with
Directions == {-1, 0, 1, 2}

\* the page before its script has run
InitLoad ==
    /\ page = "scriptPending"
    /\ handled = 0
    /\ listeners = {}
    /\ liveNodes = {}
    /\ nodeText = <<>>
    /\ timers = <<>>
    /\ ev = NoEvent
    /\ prevEv = NoEvent
    /\ beforeReload = NoReload

\* nothing persisted, no marker
InitNoPreferences ==
    /\ localStorage = [k \in {} |-> <<>>]
    /\ htmlClasses = {}
    /\ bodyClasses = {}

\* both overlays closed, as the markup delivers them: with the ARIA attributes
\* of the closed state, or without them
ClosedOverlays(aria) ==
    [ menuClasses      |-> {},
      menuAriaHidden   |-> IF aria THEN "true" ELSE Absent,
      btnAriaExpanded  |-> IF aria THEN "false" ELSE Absent,
      searchClasses    |-> {},
      searchAriaHidden |-> IF aria THEN "true" ELSE Absent,
      overflow         |-> "",
      activeElement    |-> "body" ]

InitNoTabs == tabList = <<>> /\ lastTab = <<>>

InitNoCounters == counters = <<>> /\ fadeElements = <<>>

InitScrollTop ==
    /\ pageYOffset = 0
    /\ lastScroll = 0
    /\ headerClasses = {}

NoSlider == [timer |-> FALSE, currentSlide |-> 0, slides |-> <<>>, dots |-> <<>>,
             elapsed |-> 0, nSlides |-> 0, nDots |-> 0]

\* the script is executed when the whole page is parsed: it is the last element
\* of the body, or deferred
ParsedAll ==
    [elements |-> dom, slides |-> Len(slider.slides), dots |-> Len(slider.dots)]

InitNoSlider == slider = NoSlider /\ parsed = ParsedAll

InitAcc ==
    /\ InitLoad
    /\ dom = {}
    /\ localStorage \in InitialStores
    /\ htmlClasses = {}
    /\ bodyClasses = {}
    /\ ui = ClosedOverlays(TRUE)
    /\ InitNoTabs
    /\ InitNoCounters
    /\ InitScrollTop
    /\ InitNoSlider

NextAcc ==
    \/ RunScript /\ UNCHANGED handled
    \/ DOMContentLoaded /\ UNCHANGED handled
    \/ \E d \in Directions : changeFontSize(d) /\ UNCHANGED handled
    \/ toggleContrast /\ UNCHANGED handled
    \/ RemoveAnnouncement /\ UNCHANGED handled

SpecAcc == InitAcc /\ [][NextAcc]_vars

\* the font-size classes on the document root
FontMarkers == htmlClasses \cap FontSizeClasses

\* the persisted font-size level: 0 when the key is absent, empty or no number
PersistedLevel ==
    IF Truthy(localStorage, "dpl-font-size")
       /\ ~parseInt(localStorage["dpl-font-size"]).nan
    THEN parseInt(localStorage["dpl-font-size"]).val
    ELSE 0

\* C1: after changeFontSize(d) with d in {-1, 0, 1}, from any prior state, exactly
\* the marker matching d is on the document root (large for 1, small for -1, none
\* for 0) and dpl-font-size holds d as a string.
C1_ChangeFontSizeApplies ==
    (ev.op = "changeFontSize" /\ ev.arg \in {-1, 0, 1}) =>
        /\ FontMarkers = (IF ev.arg = 1 THEN {"font-size-large"}
                          ELSE IF ev.arg = -1 THEN {"font-size-small"} ELSE {})
        /\ "dpl-font-size" \in DOMAIN localStorage
        /\ localStorage["dpl-font-size"] =
              (IF ev.arg = 1 THEN <<"1">>
               ELSE IF ev.arg = -1 THEN <<"-", "1">> ELSE <<"0">>)

\* changeFontSize(-1) was called while the large marker was applied
C1_Witness ==
    /\ ev.op = "changeFontSize" /\ ev.arg = -1
    /\ ev.pre = {"font-size-large"}
    /\ FontMarkers = {"font-size-small"}

\* C2: in every reachable state at most one of font-size-small / font-size-large
\* is on the document root, and neither is while the persisted level is 0.
C2_AtMostOneFontClass ==
    /\ Cardinality(FontMarkers) <= 1
    /\ PersistedLevel = 0 => FontMarkers = {}

\* initAccessibility applied a persisted large level and a later
\* changeFontSize(-1) replaced it
C2_Witness ==
    /\ prevEv.op = "DOMContentLoaded"
    /\ ev.op = "changeFontSize" /\ ev.arg = -1
    /\ ev.pre = {"font-size-large"}
    /\ FontMarkers = {"font-size-small"}
    /\ PersistedLevel = -1

HighContrast == "high-contrast" \in bodyClasses

\* C3: each toggleContrast() flips the high-contrast marker of the body and
\* persists the new state of the marker as "true"/"false"; two consecutive calls
\* restore the marker, and from the default state they end with no marker and
\* "false" persisted.
C3_ToggleContrastTwice ==
    /\ ev.op = "toggleContrast" =>
          /\ HighContrast = ~ev.pre
          /\ "dpl-high-contrast" \in DOMAIN localStorage
          /\ localStorage["dpl-high-contrast"] =
                (IF HighContrast THEN <<"t", "r", "u", "e">>
                 ELSE <<"f", "a", "l", "s", "e">>)
    /\ (ev.op = "toggleContrast" /\ prevEv.op = "toggleContrast") =>
          /\ HighContrast = prevEv.pre
          /\ prevEv.pre = FALSE =>
                localStorage["dpl-high-contrast"] = <<"f", "a", "l", "s", "e">>

\* toggleContrast() was called twice in a row starting without the marker
C3_Witness ==
    /\ ev.op = "toggleContrast" /\ prevEv.op = "toggleContrast"
    /\ prevEv.pre = FALSE /\ ev.pre = TRUE
    /\ ~HighContrast

\* dpl-high-contrast is persisted as exactly the string "true"
SavedContrastIsTrue ==
    /\ "dpl-high-contrast" \in DOMAIN localStorage
    /\ localStorage["dpl-high-contrast"] = <<"t", "r", "u", "e">>

\* C11: right after the startup handler has run, the page is ready (no error
\* stopped the handler); if dpl-font-size is absent, empty or does not parse to -1
\* or 1, neither font-size marker is on the document root; and the body has the
\* high-contrast marker if and only if dpl-high-contrast is exactly "true".
C11_StartupDefaults ==
    ev.op = "DOMContentLoaded" =>
        /\ page = "ready"
        /\ PersistedLevel \notin {-1, 1} => FontMarkers = {}
        /\ HighContrast <=> SavedContrastIsTrue

\* the page started with dpl-font-size "abc" and dpl-high-contrast "TRUE"
C11_Witness ==
    /\ ev.op = "DOMContentLoaded"
    /\ prevEv.op = "RunScript"
    /\ DOMAIN localStorage = {"dpl-font-size", "dpl-high-contrast"}
    /\ localStorage["dpl-font-size"] = <<"a", "b", "c">>
    /\ localStorage["dpl-high-contrast"] = <<"T", "R", "U", "E">>
    /\ FontMarkers = {} /\ ~HighContrast

-----------------------------------------------------------------------------
(* Overlays: specification *)

MenuElements   == {"mobile-menu-btn", "mobile-menu", "mobile-close", "mobile-menu-link"}
SearchElements == {"search-toggle", "search-overlay", "search-close", "search-input"}

\* keys the user may press
Keys == {"Escape", "Enter"}

InitNav ==
    /\ InitLoad
    /\ dom \in SUBSET (MenuElements \cup SearchElements)
    /\ InitNoPreferences
    /\ \E aria \in BOOLEAN : ui = ClosedOverlays(aria)
    /\ InitNoTabs
    /\ InitNoCounters
    /\ InitScrollTop
    /\ InitNoSlider

NextNav ==
    \/ RunScript /\ UNCHANGED handled
    \/ DOMContentLoaded /\ UNCHANGED handled
    \/ ClickMobileMenuBtn /\ UNCHANGED handled
    \/ ClickMobileClose /\ UNCHANGED handled
    \/ \E t \in {"mobile-menu", "mobile-menu-link"} :
          ClickMobileMenu(t) /\ UNCHANGED handled
    \/ ClickSearchToggle /\ UNCHANGED handled
    \/ ClickSearchClose /\ UNCHANGED handled
    \/ \E t \in {"search-overlay", "search-input"} :
          ClickSearchOverlay(t) /\ UNCHANGED handled
    \/ \E k \in Keys : KeydownDocument(k) /\ UNCHANGED handled

SpecNav == InitNav /\ [][NextNav]_vars

\* the last event took a close path of the mobile menu
MenuClosePath ==
    \/ ev.op = "ClickMobileClose"
    \/ ev.op = "KeydownDocument" /\ ev.arg = "Escape" /\ ev.pre.menu
    \/ ev.op = "ClickMobileMenu" /\ ev.arg = "mobile-menu"

\* the last event took a close path of the search overlay
SearchClosePath ==
    \/ ev.op = "ClickSearchClose"
    \/ ev.op = "KeydownDocument" /\ ev.arg = "Escape" /\ ev.pre.search
    \/ ev.op = "ClickSearchOverlay" /\ ev.arg = "search-overlay"

\* C4: opening an overlay and then closing it by any of its close paths (close
\* control, Escape while open, click on the backdrop itself) restores the closed
\* state: for the menu aria-hidden "true", aria-expanded "false" and the focus on
\* the menu trigger; for the search overlay aria-hidden "true" and the focus on
\* the search toggle.
C4_OpenCloseRestores ==
    /\ (prevEv.op = "ClickMobileMenuBtn" /\ MenuClosePath) =>
          /\ ui.menuAriaHidden = "true"
          /\ ui.btnAriaExpanded = "false"
          /\ ui.activeElement = "mobile-menu-btn"
    /\ (prevEv.op = "ClickSearchToggle" /\ SearchClosePath) =>
          /\ ui.searchAriaHidden = "true"
          /\ ui.activeElement = "search-toggle"

\* C5: for each overlay, in every state between event handlers, the overlay has
\* the class active if and only if its aria-hidden is "false".
C5_ActiveAgreesWithAriaHidden ==
    /\ "active" \in ui.menuClasses <=> ui.menuAriaHidden = "false"
    /\ "active" \in ui.searchClasses <=> ui.searchAriaHidden = "false"

\* the menu was closed by a click on its close control while already closed,
\* after an earlier open
C5_Witness ==
    /\ ev.op = "ClickMobileClose" /\ ~ev.pre.menu
    /\ prevEv.op = "ClickMobileClose" /\ prevEv.pre.menu
    /\ ui.menuAriaHidden = "true" /\ "active" \notin ui.menuClasses

\* C13: the body's overflow is "hidden" in every state in which the mobile menu
\* or the search overlay is open, and is restored to "" once both are closed,
\* whatever the order of the open and close events on the two overlays.
C13_ScrollLockedWhileOpen ==
    /\ (Open(ui).menu \/ Open(ui).search) => ui.overflow = "hidden"
    /\ (~Open(ui).menu /\ ~Open(ui).search) => ui.overflow = ""

\* the state of the mobile menu and of its trigger
MenuState(u) == <<u.menuClasses, u.menuAriaHidden, u.btnAriaExpanded>>

\* the state of the search overlay
SearchState(u) == <<u.searchClasses, u.searchAriaHidden>>

\* the step is the handling of an Escape key press
EscapeStep == ev'.op = "KeydownDocument" /\ ev'.arg = "Escape"

\* what an Escape key press does, by the overlays that were open when it came
EscapeClosesTheOpen ==
    EscapeStep =>
        /\ Open(ui') = [menu |-> FALSE, search |-> FALSE]
        /\ IF Open(ui).menu
           THEN MenuState(ui') = <<ui.menuClasses \ {"active"}, "true", "false">>
           ELSE MenuState(ui') = MenuState(ui)
        /\ IF Open(ui).search
           THEN SearchState(ui') = <<ui.searchClasses \ {"active"}, "true">>
           ELSE SearchState(ui') = SearchState(ui)
        /\ ui'.activeElement =
              (IF Open(ui).search THEN "search-toggle"
               ELSE IF Open(ui).menu THEN "mobile-menu-btn"
               ELSE ui.activeElement)
        /\ ui'.overflow =
              (IF Open(ui).menu \/ Open(ui).search THEN "" ELSE ui.overflow)

\* C19: an Escape key press closes exactly the overlays open at that moment, the
\* menu handler running before the search handler (so with both open both are
\* closed and the focus ends on the search toggle); of an overlay that is
\* closed it changes nothing, and on its behalf it neither moves the focus nor
\* releases the scroll lock.
C19_EscapeClosesOnlyTheOpen == [][EscapeClosesTheOpen]_vars

\* Escape came while both overlays were open, the menu having been opened last
C19_Witness ==
    /\ ev.op = "KeydownDocument" /\ ev.arg = "Escape"
    /\ ev.pre = [menu |-> TRUE, search |-> TRUE]
    /\ prevEv.op = "ClickMobileMenuBtn"
    /\ Open(ui) = [menu |-> FALSE, search |-> FALSE]
    /\ ui.activeElement = "search-toggle"

-----------------------------------------------------------------------------
(* Tabs: specification *)

\* most tabs in a group
MaxTabs == 3

TabLabels == <<"Books", "Events", "News", "Notices", "Tenders">>

\* a tab as the markup delivers it: unmarked, or marked as the selected one
MarkupTab(index, marked) ==
    [ classes      |-> IF marked THEN {"active"} ELSE {},
      ariaSelected |-> IF marked THEN "true" ELSE Absent,
      textContent  |-> TabLabels[index + 1] ]

\* the groups the markup may hold: n tabs of which a set is marked
MarkupGroups ==
    { [i \in 1 .. n |-> MarkupTab(i - 1, (i - 1) \in marked)] :
        n \in 1 .. MaxTabs, marked \in {{}, {0}, {0, 1}} }

InitTabs ==
    /\ InitLoad
    /\ dom = {}
    /\ InitNoPreferences
    /\ ui = ClosedOverlays(TRUE)
    /\ \E g1 \in MarkupGroups, n2 \in 1 .. 2 :
          tabList = << g1, [i \in 1 .. n2 |-> MarkupTab(i - 1, i = 1)] >>
    /\ lastTab = <<-1, -1>>
    /\ InitNoCounters
    /\ InitScrollTop
    /\ InitNoSlider

\* keys pressed on a tab
TabKeys == {"ArrowRight", "ArrowLeft", "Enter"}

NextTabs ==
    \/ RunScript /\ UNCHANGED handled
    \/ DOMContentLoaded /\ UNCHANGED handled
    \/ \E g \in DOMAIN tabList : \E i \in 0 .. Len(tabList[g]) - 1 :
          ClickTab(g, i) /\ UNCHANGED handled
    \/ \E g \in DOMAIN tabList : \E i \in 0 .. Len(tabList[g]) - 1 :
          \E k \in TabKeys : KeydownTab(g, i, k) /\ UNCHANGED handled
    \/ RemoveAnnouncement /\ UNCHANGED handled

SpecTabs == InitTabs /\ [][NextTabs]_vars

\* the indices of the tabs of group g that have aria-selected="true"
AriaSelected(g) ==
    { i \in 0 .. Len(tabList[g]) - 1 : TabAt(tabList[g], i).ariaSelected = "true" }

\* the indices of the tabs of group g that have the class active
ActiveTabs(g) ==
    { i \in 0 .. Len(tabList[g]) - 1 : "active" \in TabAt(tabList[g], i).classes }

\* C6: once a tab of a group was clicked or targeted by an arrow key, after any
\* further clicks and key presses exactly one tab of the group has
\* aria-selected="true" and the class active, the one most recently clicked or
\* targeted, and every other tab of the group has aria-selected="false".
C6_ExactlyOneSelected ==
    \A g \in DOMAIN tabList :
        lastTab[g] >= 0 =>
            /\ AriaSelected(g) = {lastTab[g]}
            /\ ActiveTabs(g) = {lastTab[g]}
            /\ \A i \in 0 .. Len(tabList[g]) - 1 :
                  i # lastTab[g] => TabAt(tabList[g], i).ariaSelected = "false"

\* in a group of three tabs where tab 2 had been selected by a click, ArrowRight
\* on tab 2 wrapped to tab 0, and the other group is untouched
C6_Witness ==
    /\ Len(tabList[1]) = 3
    /\ ev.op = "KeydownTab"
    /\ ev.arg[1] = 1 /\ ev.arg[2] = 2 /\ ev.arg[3] = "ArrowRight"
    /\ TabAt(ev.arg[4], 2).ariaSelected = "true"
    /\ TabAt(ev.arg[4], 0).ariaSelected = "false"
    /\ lastTab[1] = 0 /\ AriaSelected(1) = {0}
    /\ lastTab[2] = -1

\* C7: in a group of n tabs ArrowRight on the tab at index i moves the focus to
\* and selects index (i+1) mod n, ArrowLeft index (i-1) mod n; any other key
\* changes neither the focus nor the selection.
C7_ArrowKeysWrap ==
    ev.op = "KeydownTab" =>
        LET g == ev.arg[1]
            i == ev.arg[2]
            key == ev.arg[3]
            n == Len(tabList[g])
        IN  /\ key = "ArrowRight" =>
                  /\ ui.activeElement = TabId(g, (i + 1) % n)
                  /\ AriaSelected(g) = {(i + 1) % n}
            /\ key = "ArrowLeft" =>
                  /\ ui.activeElement = TabId(g, (i + n - 1) % n)
                  /\ AriaSelected(g) = {(i + n - 1) % n}
            /\ key \notin {"ArrowRight", "ArrowLeft"} =>
                  /\ ui.activeElement = TabId(g, i)
                  /\ tabList[g] = ev.arg[4]

\* in a group of three tabs ArrowLeft on index 0 selected index 2
C7_Witness ==
    /\ Len(tabList[1]) = 3
    /\ ev.op = "KeydownTab"
    /\ ev.arg[1] = 1 /\ ev.arg[2] = 0 /\ ev.arg[3] = "ArrowLeft"
    /\ ui.activeElement = "tab1.2"
    /\ AriaSelected(1) = {2}

\* C16: from the initialisation on, before any click or key press as well as
\* after, every tab group has exactly one tab with aria-selected="true".
C16_OneSelectedFromInit ==
    page = "ready" => \A g \in DOMAIN tabList : Cardinality(AriaSelected(g)) = 1

-----------------------------------------------------------------------------
(* Counters: specification *)

\* values of the data-count attribute
DataCounts ==
    { <<"4", "2">>, <<"0">>, <<"9", "9", "9">>, <<"1", "0", "0", "0">>,
      <<"3", "4", "0", "0">>, <<"3", "5", "0", "0">>, <<"5", "0", "0", "0", "0">>,
      <<"9", "9", "9", "9", "9", "9">>, <<"1", "0", "0", "0", "0", "0", "0">>,
      <<"2", "5", "0", "0", "0", "0", "0">>, <<"1", "2", "5", "0", "0", "0", "0">>,
      <<"1", "9", "6", "0", "0", "0", "0">>, <<"-", "5">>, <<"2", "5", "0", "+">>,
      <<"m", "a", "n", "y">>, <<>> }

\* a [data-count] element as the markup delivers it
MarkupCounter(dataCount) ==
    [ dataCount |-> dataCount, observed |-> FALSE, timer |-> "none",
      target |-> NaN, ticks |-> 0, currentNum |-> 0, textContent |-> "0" ]

\* a card that fades in as the markup delivers it: no inline style
MarkupCard == [observed |-> FALSE, opacity |-> "", transform |-> ""]

InitCounters ==
    /\ InitLoad
    /\ dom \in SUBSET {"IntersectionObserver"}
    /\ InitNoPreferences
    /\ ui = ClosedOverlays(TRUE)
    /\ InitNoTabs
    /\ \E d \in DataCounts : counters = << MarkupCounter(d) >>
    /\ fadeElements \in {<<>>, << MarkupCard >>}
    /\ InitScrollTop
    /\ InitNoSlider

NextCounters ==
    \/ RunScript /\ UNCHANGED handled
    \/ DOMContentLoaded /\ UNCHANGED handled
    \/ \E i \in DOMAIN counters : \E b \in BOOLEAN : CounterIntersection(i, b) /\ UNCHANGED handled
    \/ \E i \in DOMAIN counters : CounterTick(i) /\ UNCHANGED handled
    \/ \E i \in DOMAIN fadeElements : \E b \in BOOLEAN : FadeIntersection(i, b) /\ UNCHANGED handled

SpecCounters == InitCounters /\ [][NextCounters]_vars

\* the text of a settled counter whose target is t, by the formatting policy
\* applied to the target itself
SettledText(t) ==
    IF t >= 1000000 THEN toFixed(t, 1000000, 1) \o "M+"
    ELSE IF t >= 1000 THEN toFixed(t, 1000, 0) \o "K+"
    ELSE ToString(t)

\* C8: when a counter animation has settled, the rendered text is the formatting
\* policy applied to the exact target: target / 1,000,000 with one decimal and
\* "M+" from 1,000,000 on, target / 1,000 with no decimals and "K+" from 1,000
\* on, the integer target below; 2,500,000 ends as "2.5M+", 3,400 as "3K+" and
\* 42 as "42".
C8_SettledCounterText ==
    \A i \in DOMAIN counters :
        counters[i].timer = "cleared" =>
            /\ counters[i].textContent = SettledText(counters[i].target.val)
            /\ counters[i].target.val = 2500000 => counters[i].textContent = "2.5M+"
            /\ counters[i].target.val = 3400 => counters[i].textContent = "3K+"
            /\ counters[i].target.val = 42 => counters[i].textContent = "42"
            /\ counters[i].target.val = 999999 => counters[i].textContent = "1000K+"
            /\ counters[i].target.val = 1250000 => counters[i].textContent = "1.3M+"

\* a counter of target 999 settled by a tick that went beyond the target
C8_Witness ==
    /\ counters # <<>>
    /\ counters[1].timer = "cleared"
    /\ counters[1].target.val = 999
    /\ counters[1].ticks = Steps + 1
    /\ counters[1].textContent = "999"

\* setInterval calls the callback again and again while the interval is set, so
\* a tick that stays possible is taken
SpecCountersFair ==
    SpecCounters /\ WF_vars(CounterTick(1) /\ UNCHANGED handled)

\* a counter is observed only while unanimated, and once the first tick of a
\* counter with an integer target has run, the value rendered is at most the
\* target (for a target below 0, the target itself)
CounterStages ==
    \A i \in DOMAIN counters :
        /\ counters[i].observed => counters[i].timer = "none"
        /\ (~counters[i].target.nan /\ counters[i].ticks >= 1) =>
              /\ counters[i].currentNum <= Steps * counters[i].target.val
              /\ counters[i].target.val \in 0 .. 999 =>
                    counters[i].textContent \in
                        { ToString(n) : n \in 0 .. counters[i].target.val }
        /\ (~counters[i].target.nan /\ counters[i].timer = "cleared") =>
              counters[i].currentNum = Steps * counters[i].target.val

\* a counter moves forward only: an intersecting entry starts the ramp and ends
\* the observation, the ramp is never set again, a settled counter stays as it is
CounterMovesForward ==
    \A i \in DOMAIN counters :
        /\ (counters[i].timer = "none" /\ counters'[i].timer # "none") =>
              /\ counters[i].observed /\ ~counters'[i].observed
              /\ counters'[i].timer = "set" /\ counters'[i].ticks = 0
        /\ counters[i].timer = "set" =>
              /\ counters'[i].timer \in {"set", "cleared"}
              /\ counters'[i].ticks >= counters[i].ticks
              /\ counters'[i].target = counters[i].target
        /\ counters[i].timer = "cleared" => counters'[i] = counters[i]

\* the ramp of a counter with an integer target ends: the timer is cleared with
\* the value at exactly the target
CounterSettles ==
    (counters[1].timer = "set" /\ ~counters[1].target.nan)
        ~> (counters[1].timer = "cleared"
               /\ counters[1].currentNum = Steps * counters[1].target.val)

\* C17: each counter goes from unanimated to animating to settled once: the first
\* intersecting entry starts the ramp and ends the observation, so that nothing
\* restarts it; for every integer target (0 and targets the step does not divide
\* included) the value rendered never exceeds the target, and the timer
\* eventually stops with the value at exactly the target.
C17_CounterRunsOnce ==
    [](CounterStages) /\ [][CounterMovesForward]_vars /\ CounterSettles

\* a counter of target 42, which the number of steps does not divide, settled on
\* the tick after the last step and is no longer observed
C17_Witness ==
    /\ ev.op = "CounterTick"
    /\ counters[1].dataCount = <<"4", "2">>
    /\ counters[1].timer = "cleared" /\ ~counters[1].observed
    /\ counters[1].ticks = Steps + 1
    /\ counters[1].currentNum = Steps * 42

-----------------------------------------------------------------------------
(* Header: specification *)

InitScroll ==
    /\ InitLoad
    /\ dom \in SUBSET {"main-header"}
    /\ InitNoPreferences
    /\ ui = ClosedOverlays(TRUE)
    /\ InitNoTabs
    /\ InitNoCounters
    /\ InitScrollTop
    /\ InitNoSlider

NextScroll ==
    \/ RunScript /\ UNCHANGED handled
    \/ DOMContentLoaded /\ UNCHANGED handled
    \/ \E y \in 0 .. MaxScroll : Scroll(y) /\ UNCHANGED handled

SpecScroll == InitScroll /\ [][NextScroll]_vars

\* C9: after every scroll event the header carries the scrolled marker if and
\* only if the scroll offset is greater than 10 (absent at exactly 10, present at
\* 11), whatever the previous positions were.
C9_ScrolledIffBeyondTen ==
    (ev.op = "Scroll" /\ ev.pre.handled) =>
        /\ pageYOffset = ev.arg
        /\ "scrolled" \in headerClasses <=> pageYOffset > 10
        /\ pageYOffset = 10 => "scrolled" \notin headerClasses
        /\ pageYOffset = 11 => "scrolled" \in headerClasses

\* the page was scrolled from 11, where the header had the marker, to exactly 10
C9_Witness ==
    /\ ev.op = "Scroll" /\ ev.pre.handled
    /\ ev.pre.offset = 11 /\ "scrolled" \in ev.pre.classes
    /\ pageYOffset = 10 /\ "scrolled" \notin headerClasses

-----------------------------------------------------------------------------
(* Slider: specification *)

\* n slides or dots as the markup delivers them, the first one marked or none
MarkupItems(n, marked) ==
    [i \in 1 .. n |-> IF marked /\ i = 1 THEN {"active"} ELSE {}]

\* the moments of parsing at which the script may be executed: some of the
\* elements, slides and dots of the page are in the document, the others not yet
ParseMoments ==
    { [elements |-> e, slides |-> a, dots |-> b] :
        e \in SUBSET dom, a \in 0 .. Len(slider.slides), b \in 0 .. Len(slider.dots) }

InitSlider ==
    /\ InitLoad
    /\ dom \in SUBSET {"hero-slider"}
    /\ InitNoPreferences
    /\ ui = ClosedOverlays(TRUE)
    /\ InitNoTabs
    /\ InitNoCounters
    /\ InitScrollTop
    /\ \E nSlides \in 0 .. MaxSlides, nDots \in 0 .. MaxSlides, marked \in BOOLEAN :
          slider = [NoSlider EXCEPT !.slides = MarkupItems(nSlides, marked),
                                    !.dots = MarkupItems(nDots, marked)]
    /\ parsed \in ParseMoments

NextSlider ==
    \/ RunScript /\ UNCHANGED handled
    \/ DOMContentLoaded /\ UNCHANGED handled
    \/ SliderElapse /\ UNCHANGED handled
    \/ SliderTick /\ UNCHANGED handled
    \/ \E j \in 0 .. MaxSlides - 1 : ClickDot(j) /\ UNCHANGED handled

SpecSlider == InitSlider /\ [][NextSlider]_vars

\* the indices of the slides that have the class active
ActiveSlides ==
    { i \in 0 .. Len(slider.slides) - 1 : "active" \in slider.slides[i + 1] }

\* what holds of the slider after a tick and after a dot click
SliderAfterEvent ==
    LET n == slider.nSlides
    IN  /\ ev.op = "SliderTick" =>
              /\ slider.currentSlide = (ev.pre.currentSlide + 1) % n
              /\ ActiveSlides = {slider.currentSlide}
        /\ ev.op = "ClickDot" =>
              /\ slider.currentSlide = ev.arg
              /\ ev.arg < n => ActiveSlides = {ev.arg}
              /\ slider.timer
        /\ (ev.op = "SliderTick" /\ prevEv.op = "ClickDot") =>
              slider.currentSlide = (prevEv.arg + 1) % n
        /\ (ev.op = "SliderTick" /\ prevEv.op = "SliderTick" /\ n = 3
               /\ prevEv.pre.currentSlide = 0) =>
              slider.currentSlide = 2

\* a dot click leaves the timer set and its phase as it is
DotClickKeepsTimer ==
    (\E j \in 0 .. MaxSlides - 1 : ClickDot(j)) =>
        /\ slider'.timer = slider.timer
        /\ slider'.elapsed = slider.elapsed

\* C10: in an active slider with n slides each timer tick sets the active index
\* to (currentSlide + 1) mod n, and a click on the dot at j sets it to j at once,
\* whatever the timer phase, neither resetting nor cancelling the timer, so that
\* the next tick shows (j + 1) mod n; with 3 slides two ticks from index 0 give
\* index 2.
C10_SliderTickAndDot == [](SliderAfterEvent) /\ [][DotClickKeepsTimer]_vars

\* with 3 slides, dot 1 was clicked in the middle of the interval and the next
\* tick then showed slide 2
C10_Witness ==
    /\ Len(slider.slides) = 3
    /\ prevEv.op = "ClickDot" /\ prevEv.arg = 1
    /\ prevEv.pre.elapsed = 1 /\ prevEv.pre.currentSlide = 0
    /\ ev.op = "SliderTick"
    /\ slider.currentSlide = 2 /\ ActiveSlides = {2}

\* C14: the slider is initialised with the other controllers once the page is
\* parsed: when the page is ready the slider is active (timer set, dots
\* listening) exactly when the page has a .hero-slider and more than one slide,
\* at whatever moment of parsing the script was executed.
C14_SliderActiveIffMarkup ==
    page = "ready" =>
        (slider.timer <=> ("hero-slider" \in dom /\ Len(slider.slides) > 1))

\* the indices of the dots that have the class active
ActiveDots ==
    { i \in 0 .. Len(slider.dots) - 1 : "active" \in slider.dots[i + 1] }

\* C15: in an active slider, from its initialisation on and after any ticks and
\* dot clicks, for any numbers of slides and dots, exactly one slide and exactly
\* one dot have the class active, at the same position, which is currentSlide,
\* and currentSlide is within 0 .. number of slides - 1.
C15_OneActiveSlideAndDot ==
    slider.timer =>
        /\ slider.currentSlide \in 0 .. Len(slider.slides) - 1
        /\ ActiveSlides = {slider.currentSlide}
        /\ ActiveDots = {slider.currentSlide}

-----------------------------------------------------------------------------
(* The whole page: specification *)

\* the elements a page may lack
AllElements ==
    (MenuElements \ {"mobile-menu-link"}) \cup SearchElements
        \cup {"main-header", "hero-slider"}

\* every subset of the elements, with or without a tab group, a counter, a card
\* that fades in, slides and dots; a menu has a link, the browser has
\* IntersectionObserver and the overlays carry no ARIA attribute yet
InitPage ==
    /\ InitLoad
    /\ \E present \in SUBSET AllElements :
          dom = present \cup {"IntersectionObserver"}
                    \cup (IF "mobile-menu" \in present THEN {"mobile-menu-link"} ELSE {})
    /\ InitNoPreferences
    /\ ui = ClosedOverlays(FALSE)
    /\ \E withTabs \in BOOLEAN :
          /\ tabList = IF withTabs THEN << <<MarkupTab(0, FALSE)>> >> ELSE <<>>
          /\ lastTab = IF withTabs THEN <<-1>> ELSE <<>>
    /\ counters \in {<<>>, << MarkupCounter(<<"4", "2">>) >>}
    /\ fadeElements \in {<<>>, << MarkupCard >>}
    /\ InitScrollTop
    /\ \E nSlides \in {0, 2}, nDots \in {0, 2} :
          slider = [NoSlider EXCEPT !.slides = MarkupItems(nSlides, TRUE),
                                    !.dots = MarkupItems(nDots, TRUE)]
    /\ parsed = ParsedAll

\* an event is handled once the page is ready: the first one at once or when
\* the first tick of the slider is due, and at most MaxEvents of them
Handled(event) ==
    /\ page = "ready"
    /\ handled < MaxEvents
    /\ slider.elapsed \in {0, SliderPhases}
    /\ handled' = handled + 1
    /\ event

NextPage ==
    \/ RunScript /\ UNCHANGED handled
    \/ DOMContentLoaded /\ UNCHANGED handled
    \/ page = "ready" /\ handled = 0 /\ SliderElapse /\ UNCHANGED handled
    \/ Handled(ClickMobileMenuBtn)
    \/ Handled(ClickMobileClose)
    \/ Handled(ClickMobileMenu("mobile-menu"))
    \/ Handled(ClickSearchToggle)
    \/ Handled(ClickSearchClose)
    \/ Handled(ClickSearchOverlay("search-overlay"))
    \/ Handled(KeydownDocument("Escape"))
    \/ \E g \in DOMAIN tabList : Handled(ClickTab(g, 0))
    \/ \E g \in DOMAIN tabList : Handled(KeydownTab(g, 0, "ArrowRight"))
    \/ Handled(RemoveAnnouncement)
    \/ \E i \in DOMAIN counters : Handled(CounterIntersection(i, TRUE))
    \/ \E i \in DOMAIN counters : Handled(CounterTick(i))
    \/ \E i \in DOMAIN fadeElements : Handled(FadeIntersection(i, TRUE))
    \/ "window.scroll" \in listeners /\ Handled(Scroll(MaxScroll))
    \/ Handled(SliderTick)
    \/ \E j \in 0 .. MaxSlides - 1 : Handled(ClickDot(j))

SpecPage == InitPage /\ [][NextPage]_vars

MenuListeners ==
    {"mobileMenuBtn.click", "document.keydown/menu", "mobileMenu.click", "mobileClose.click"}

SearchListeners ==
    {"searchToggle.click", "document.keydown/search", "searchOverlay.click",
     "searchClose.click"}

TabListeners == {"tab.click", "tab.keydown"}

\* a controller whose required elements are missing has registered nothing
MissingRegistersNothing ==
    /\ ~({"mobile-menu-btn", "mobile-menu"} \subseteq dom) => listeners \cap MenuListeners = {}
    /\ "mobile-close" \notin dom => "mobileClose.click" \notin listeners
    /\ ~({"search-toggle", "search-overlay"} \subseteq dom) =>
          listeners \cap SearchListeners = {}
    /\ "search-close" \notin dom => "searchClose.click" \notin listeners
    /\ tabList = <<>> => listeners \cap TabListeners = {}
    /\ "main-header" \notin dom => "window.scroll" \notin listeners
    /\ "IntersectionObserver" \notin dom =>
          /\ \A i \in DOMAIN counters : ~counters[i].observed /\ counters[i].timer = "none"
          /\ \A i \in DOMAIN fadeElements : fadeElements[i] = MarkupCard
    /\ ("hero-slider" \notin dom \/ Len(slider.slides) <= 1) => ~slider.timer

\* once the page is ready, every controller whose required elements are there is
\* initialised, whatever else is missing
PresentAreInitialised ==
    page = "ready" =>
        /\ {"mobile-menu-btn", "mobile-menu"} \subseteq dom =>
              MenuListeners \ {"mobileClose.click"} \subseteq listeners
        /\ {"mobile-menu-btn", "mobile-menu", "mobile-close"} \subseteq dom =>
              "mobileClose.click" \in listeners
        /\ {"search-toggle", "search-overlay"} \subseteq dom =>
              SearchListeners \ {"searchClose.click"} \subseteq listeners
        /\ {"search-toggle", "search-overlay", "search-close"} \subseteq dom =>
              "searchClose.click" \in listeners
        /\ tabList # <<>> => TabListeners \subseteq listeners
        /\ "main-header" \in dom => "window.scroll" \in listeners
        /\ "IntersectionObserver" \in dom =>
              /\ \A i \in DOMAIN counters :
                    counters[i].observed \/ counters[i].timer # "none"
              /\ \A i \in DOMAIN fadeElements :
                    fadeElements[i].observed \/ fadeElements[i].opacity = "1"
        /\ ("hero-slider" \in dom /\ Len(slider.slides) > 1) => slider.timer

\* no handler has written to, or focused, an element the page does not have: a
\* TypeError in the script
NoneTouchedWhileAbsent ==
    /\ "mobile-menu" \notin dom => ui.menuClasses = {} /\ ui.menuAriaHidden = Absent
    /\ "mobile-menu-btn" \notin dom => ui.btnAriaExpanded = Absent
    /\ "search-overlay" \notin dom =>
          ui.searchClasses = {} /\ ui.searchAriaHidden = Absent
    /\ "main-header" \notin dom => headerClasses = {}
    /\ ui.activeElement \in
          dom \cup {"body"}
              \cup { TabId(g, i) : g \in DOMAIN tabList, i \in 0 .. MaxTabs - 1 }

\* C12: whatever subset of the elements the page lacks, a controller whose
\* required elements are missing registers nothing and does nothing, the other
\* controllers are initialised once the page is ready, and neither the
\* initialisation nor a later handler touches an element that is not there.
C12_MissingElementsAreHarmless ==
    /\ MissingRegistersNothing
    /\ PresentAreInitialised
    /\ NoneTouchedWhileAbsent

\* on a page with the search overlay only (no search input, no close control, no
\* menu, no header, no tabs, no slider) the overlay was opened and closed by Escape
C12_Witness ==
    /\ dom = {"mobile-menu-btn", "search-toggle", "search-overlay",
              "IntersectionObserver"}
    /\ tabList = <<>> /\ counters # <<>> /\ slider.slides = <<>>
    /\ page = "ready"
    /\ listeners = SearchListeners \ {"searchClose.click"}
    /\ prevEv.op = "ClickSearchToggle"
    /\ ev.op = "KeydownDocument" /\ ev.arg = "Escape" /\ ev.pre.search
    /\ ui.searchClasses = {} /\ ui.activeElement = "search-toggle"
    /\ ui.menuAriaHidden = Absent
    /\ \A i \in DOMAIN counters : counters[i].observed

-----------------------------------------------------------------------------
(* The announcer under all of its callers: specification *)

\* a page with one group of two tabs and no stored preference
InitAnnounce ==
    /\ InitLoad
    /\ dom = {}
    /\ InitNoPreferences
    /\ ui = ClosedOverlays(TRUE)
    /\ tabList = << << MarkupTab(0, TRUE), MarkupTab(1, FALSE) >> >>
    /\ lastTab = <<-1>>
    /\ InitNoCounters
    /\ InitScrollTop
    /\ InitNoSlider

NextAnnounce ==
    \/ RunScript /\ UNCHANGED handled
    \/ DOMContentLoaded /\ UNCHANGED handled
    \/ \E d \in {-1, 1} : changeFontSize(d) /\ UNCHANGED handled
    \/ toggleContrast /\ UNCHANGED handled
    \/ \E i \in 0 .. 1 : ClickTab(1, i) /\ UNCHANGED handled
    \/ \E i \in 0 .. 1 : \E k \in {"ArrowRight", "Enter"} :
          KeydownTab(1, i, k) /\ UNCHANGED handled
    \/ RemoveAnnouncement /\ UNCHANGED handled

SpecAnnounce == InitAnnounce /\ [][NextAnnounce]_vars

\* a timer that was set fires: the event loop runs the callback of setTimeout
\* once its delay of 1000 ms has passed
SpecAnnounceFair ==
    SpecAnnounce /\ WF_vars(RemoveAnnouncement /\ UNCHANGED handled)

\* the nodes the pending timers will remove
Scheduled == { timers[k] : k \in DOMAIN timers }

\* every live node has one pending timer of its own, and every timer a live node
OneTimerPerNode ==
    /\ Scheduled = liveNodes
    /\ Len(timers) = Cardinality(liveNodes)
    /\ DOMAIN nodeText = liveNodes

\* a step that appends exactly one status node with the message and sets one
\* timer, for that node, leaving the other nodes and timers as they were
AppendsOne(message) ==
    \E id \in (1 .. MaxAnnounce) \ liveNodes :
        /\ liveNodes' = liveNodes \cup {id}
        /\ nodeText'[id] = message
        /\ \A n \in liveNodes : nodeText'[n] = nodeText[n]
        /\ timers' = Append(timers, id)

\* a step that removes exactly the node of the timer that fired
RemovesOwn ==
    /\ timers # <<>>
    /\ liveNodes' = liveNodes \ {Head(timers)}
    /\ \A n \in liveNodes' : nodeText'[n] = nodeText[n]
    /\ timers' = Tail(timers)

\* what each step does to the status nodes: a call of a caller appends one node,
\* a timer removes its own node, and nothing else touches the nodes
AnnounceSteps ==
    /\ (\E d \in {-1, 1} : changeFontSize(d)) => AppendsOne("Font size changed")
    /\ toggleContrast =>
          AppendsOne(IF "high-contrast" \in bodyClasses
                     THEN "High contrast mode disabled"
                     ELSE "High contrast mode enabled")
    /\ \A i \in 0 .. 1 :
          ClickTab(1, i) => AppendsOne(TabLabels[i + 1] \o " tab selected")
    /\ \A i \in 0 .. 1 :
          KeydownTab(1, i, "ArrowRight") =>
              AppendsOne(TabLabels[((i + 1) % 2) + 1] \o " tab selected")
    /\ RemoveAnnouncement => RemovesOwn
    /\ annVars' # annVars =>
          \/ Cardinality(liveNodes') = Cardinality(liveNodes) + 1
          \/ RemovesOwn

\* a step of a caller that announces
Announces == Cardinality(liveNodes') > Cardinality(liveNodes)

\* every node is removed in the end
EveryNodeRemoved ==
    \A id \in 1 .. MaxAnnounce : (id \in liveNodes) ~> (id \notin liveNodes)

\* unless announcements go on for ever, no node is left
QuietMeansNone == ([]<><<Announces>>_vars) \/ <>[](liveNodes = {})

\* C18: each announce call (of changeFontSize, toggleContrast or a tab selection)
\* appends exactly one status node and sets one timer that removes that node,
\* whatever other calls did; every node is removed in the end, the removal of a
\* node removes no other node, and once announcements stop no node is left.
C18_AnnouncementsComeAndGo ==
    /\ [](OneTimerPerNode)
    /\ [][AnnounceSteps]_vars
    /\ EveryNodeRemoved
    /\ QuietMeansNone

\* the node of a font-size change was removed and the node of the tab selection
\* that came while it was live is still there
C18_Witness ==
    /\ liveNodes = {2}
    /\ timers = <<2>>
    /\ nodeText[2] = "Events tab selected"
    /\ "font-size-large" \in htmlClasses

-----------------------------------------------------------------------------
(* Preferences across page loads: specification *)

NextReload ==
    \/ RunScript /\ UNCHANGED handled
    \/ DOMContentLoaded /\ UNCHANGED handled
    \/ \E d \in {-1, 0, 1} : changeFontSize(d) /\ UNCHANGED handled
    \/ toggleContrast /\ UNCHANGED handled
    \/ RemoveAnnouncement /\ UNCHANGED handled
    \/ Reload /\ UNCHANGED handled

SpecReload == InitAcc /\ [][NextReload]_vars

\* the fresh page has just been initialised, no call having come in between
FreshlyInitialised ==
    /\ ev.op = "DOMContentLoaded"
    /\ prevEv.op = "RunScript"
    /\ beforeReload.reloaded

\* C20: when a page that was initialised and then took any sequence of
\* changeFontSize(d), d in {-1, 0, 1}, and toggleContrast() calls is reloaded,
\* initAccessibility on the fresh page, with the values that sequence left in
\* localStorage, puts on exactly the font-size marker and the high-contrast
\* marker the page carried before the reload.
C20_PreferencesSurviveReload ==
    (FreshlyInitialised /\ beforeReload.ready) =>
        /\ FontMarkers = beforeReload.html \cap FontSizeClasses
        /\ HighContrast <=> "high-contrast" \in beforeReload.body

\* a page reloaded with the small font and high contrast on, both set by calls
\* (the values found persisted at the first visit were others), comes back
\* with both
C20_Witness ==
    /\ FreshlyInitialised /\ beforeReload.ready
    /\ beforeReload.html = {"font-size-small"}
    /\ beforeReload.body = {"high-contrast"}
    /\ FontMarkers = {"font-size-small"}
    /\ HighContrast
    /\ localStorage["dpl-font-size"] = S_m1

=============================================================================
